---- MODULE Spec2Model ----
(***************************************************************************)
(* Model of sqlite3transact: SQLite3TransactionalConnection, a             *)
(* sqlite3.Connection subclass whose __enter__/__exit__ map nested `with`  *)
(* scopes onto BEGIN/COMMIT/ROLLBACK and SAVEPOINT statements.             *)
(*                                                                         *)
(* SQL text is modelled as the sequence of lexemes the engine's tokenizer  *)
(* splits it into; the engine (sqlite3) is modelled by its grammar for the *)
(* transaction-control statements and by their documented effect.          *)
(* A statement the engine rejects (syntax error, no transaction to commit, *)
(* busy database) raises and leaves the engine's state as it was.          *)
(***************************************************************************)
EXTENDS Integers, Sequences, FiniteSets, TLC

\* ------------------------------------------------------------------ bounds
\* number of calls made on the connection in one behaviour
MaxCalls == 6
\* number of calls in behaviours that also issue raw statements (SpecRaw)
MaxRawCalls == 4
\* number of statements the engine fails for an external reason (busy, I/O)
MaxFaults == 1

\* rows the scope bodies write
Rows == {"A", "B"}

VARIABLES
  transaction_stack,  \* self.__transaction_stack
  in_transaction,     \* sqlite3.Connection.in_transaction
  savepoints,         \* the engine's stack of open savepoints
  committed,          \* rows durably in the database
  working,            \* rows visible inside the open transaction
  hist,               \* the calls made so far, with what each issued and raised
  faults              \* number of engine faults so far

vars == <<transaction_stack, in_transaction, savepoints, committed, working,
          hist, faults>>

\* ------------------------------------------------------------ SQL lexemes
\* Python's None, the root frame; a savepoint name is never empty
None == <<>>

Numerals == <<"0", "1", "2", "3", "4", "5", "6", "7", "8", "9">>

Punctuation == {"-"}

ReservedWords == {"TRANSACTION", "COMMIT", "TO"}

\* str(n) inside the f-string, for the depths within MaxCalls
Str(n) == Numerals[n + 1]

\* nm ::= ID: one lexeme that is a word, not a number, operator or reserved
IsIdentifier(tok) ==
  /\ tok \notin Punctuation
  /\ tok \notin {Numerals[i] : i \in 1..Len(Numerals)}
  /\ tok \notin ReservedWords

\* the name does not depend on the depth
SavepointName_Constant(depth) == <<"savepoint">>

\* f'savepoint-{len(self.__transaction_stack)}' as the tokenizer reads it
SavepointName(depth) == <<"savepoint", "-", Str(depth)>>

BeginStmt == <<"BEGIN", "TRANSACTION">>

CommitStmt == <<"COMMIT", "TRANSACTION">>

RollbackStmt == <<"ROLLBACK", "TRANSACTION">>

SavepointStmt(name) == <<"SAVEPOINT">> \o name

ReleaseStmt(name) == <<"RELEASE", "SAVEPOINT">> \o name

RollbackToStmt(name) == <<"ROLLBACK", "TRANSACTION", "TO", "SAVEPOINT">> \o name

\* ------------------------------------------------------------- the engine
\* the engine's parse of a transaction-control statement
Parse(stmt) ==
  IF stmt = BeginStmt THEN [kind |-> "begin", name |-> ""]
  ELSE IF stmt = CommitStmt THEN [kind |-> "commit", name |-> ""]
  ELSE IF stmt = RollbackStmt THEN [kind |-> "rollback", name |-> ""]
  ELSE IF Len(stmt) = 2 /\ stmt[1] = "SAVEPOINT" /\ IsIdentifier(stmt[2])
    THEN [kind |-> "savepoint", name |-> stmt[2]]
  ELSE IF Len(stmt) = 3 /\ SubSeq(stmt, 1, 2) = <<"RELEASE", "SAVEPOINT">>
          /\ IsIdentifier(stmt[3])
    THEN [kind |-> "release", name |-> stmt[3]]
  ELSE IF Len(stmt) = 5
          /\ SubSeq(stmt, 1, 4) = <<"ROLLBACK", "TRANSACTION", "TO", "SAVEPOINT">>
          /\ IsIdentifier(stmt[5])
    THEN [kind |-> "rollback_to", name |-> stmt[5]]
  ELSE [kind |-> "syntax_error", name |-> ""]

\* index of the most recent open savepoint called name, 0 when there is none
FindSavepoint(name) ==
  LET hits == {i \in 1..Len(savepoints) : savepoints[i].name = name}
  IN IF hits = {} THEN 0 ELSE CHOOSE i \in hits : \A j \in hits : j <= i

Engine(ok, intx, sps, com, wrk) ==
  [ok |-> ok, in_transaction |-> intx, savepoints |-> sps,
   committed |-> com, working |-> wrk]

\* the statement raised sqlite3.Error: the engine is left as it was
Rejected == Engine(FALSE, in_transaction, savepoints, committed, working)

\* self.execute(stmt); fault: the engine fails the statement on its own account
execute(stmt, fault) ==
  LET cmd == Parse(stmt)
      at == FindSavepoint(cmd.name)
  IN
  IF fault \/ cmd.kind = "syntax_error" THEN Rejected
  ELSE IF cmd.kind = "begin" THEN
    IF in_transaction THEN Rejected
    ELSE Engine(TRUE, TRUE, <<>>, committed, committed)
  ELSE IF cmd.kind = "commit" THEN
    IF ~in_transaction THEN Rejected
    ELSE Engine(TRUE, FALSE, <<>>, working, working)
  ELSE IF cmd.kind = "rollback" THEN
    IF ~in_transaction THEN Rejected
    ELSE Engine(TRUE, FALSE, <<>>, committed, committed)
  ELSE IF cmd.kind = "savepoint" THEN
    Engine(TRUE, TRUE,
           Append(savepoints, [name |-> cmd.name, snapshot |-> working,
                               opens |-> ~in_transaction]),
           committed, working)
  ELSE IF cmd.kind = "release" THEN
    IF at = 0 THEN Rejected
    ELSE IF savepoints[at].opens
      THEN Engine(TRUE, FALSE, <<>>, working, working)
      ELSE Engine(TRUE, TRUE, SubSeq(savepoints, 1, at - 1), committed, working)
  ELSE
    IF at = 0 THEN Rejected
    ELSE Engine(TRUE, TRUE, SubSeq(savepoints, 1, at), committed,
                savepoints[at].snapshot)

\* the engine's state becomes the one a statement left
SetEngine(r) ==
  /\ in_transaction' = r.in_transaction
  /\ savepoints' = r.savepoints
  /\ committed' = r.committed
  /\ working' = r.working

\* ---------------------------------------------------------------- history
Call(op, arg, stmts, raised, returned, fault) ==
  [op |-> op, arg |-> arg, stmts |-> stmts, raised |-> raised,
   returned |-> returned, fault |-> fault]

\* the call is appended with the stack depth and the engine's flag it left
Record(call) ==
  /\ hist' = Append(hist, [op |-> call.op, arg |-> call.arg,
                           stmts |-> call.stmts, raised |-> call.raised,
                           returned |-> call.returned, fault |-> call.fault,
                           depth |-> Len(transaction_stack'),
                           active |-> in_transaction'])
  /\ faults' = faults + (IF call.fault THEN 1 ELSE 0)

FaultChoices == IF faults < MaxFaults THEN BOOLEAN ELSE {FALSE}

Init ==
  /\ transaction_stack = <<>>
  /\ in_transaction = FALSE
  /\ savepoints = <<>>
  /\ committed = {}
  /\ working = {}
  /\ hist = <<>>
  /\ faults = 0

\* ------------------------------------------------------------- __enter__
Outcomes == {"normal", "failed"}

\* the frame __enter__ appends at a given depth
EnterFrame(depth) == IF depth = 0 THEN None ELSE SavepointName(depth)

\* the statement __enter__ executes at a given depth
EnterStatement(depth) ==
  IF depth = 0 THEN BeginStmt ELSE SavepointStmt(SavepointName(depth))

\* the frame is appended before the statement is known to have succeeded
StackAfterEnter_PushFirst(r) ==
  Append(transaction_stack, EnterFrame(Len(transaction_stack)))

\* the append is missing
StackAfterEnter_NoPush(r) == transaction_stack

\* the stack __enter__ leaves, r being the result of its statement
StackAfterEnter(r) ==
  IF r.ok THEN Append(transaction_stack, EnterFrame(Len(transaction_stack)))
  ELSE transaction_stack

\* the assert is missing
EnterPrecondition_NoAssert == TRUE

\* on an empty stack: assert not self.in_transaction
EnterPrecondition == Len(transaction_stack) = 0 => ~in_transaction

Enter ==
  /\ Len(hist) < MaxCalls
  /\ \E fault \in FaultChoices :
       IF ~EnterPrecondition
       THEN \* AssertionError
            /\ UNCHANGED <<transaction_stack, in_transaction, savepoints,
                           committed, working>>
            /\ Record(Call("enter", "", <<>>, "InvariantViolation", "", FALSE))
       ELSE LET stmt == EnterStatement(Len(transaction_stack))
                r == execute(stmt, fault)
            IN /\ SetEngine(r)
               /\ transaction_stack' = StackAfterEnter(r)
               /\ Record(Call("enter", "", <<stmt>>,
                              IF r.ok THEN "none" ELSE "EngineError",
                              IF r.ok THEN "None" ELSE "", fault))

\* -------------------------------------------------------------- __exit__
\* the root frame is committed whatever the outcome
ExitStatement_AlwaysCommit(outcome, frame) ==
  IF frame = None THEN CommitStmt
  ELSE IF outcome = "normal" THEN ReleaseStmt(frame) ELSE RollbackToStmt(frame)

\* the statement __exit__ executes for an outcome and the top frame
ExitStatement(outcome, frame) ==
  IF outcome = "normal"
  THEN IF frame = None THEN CommitStmt ELSE ReleaseStmt(frame)
  ELSE IF frame = None THEN RollbackStmt ELSE RollbackToStmt(frame)

\* the two asserts are exchanged between the frame kinds
ExitPostcondition_Exchanged(frame, r) ==
  IF frame = None THEN r.in_transaction ELSE ~r.in_transaction

\* the assert that follows the statement
ExitPostcondition(frame, r) ==
  IF frame = None THEN ~r.in_transaction ELSE r.in_transaction

\* the frame is popped before the statement is known to have succeeded
StackAfterExit_PopFirst(frame, r) ==
  SubSeq(transaction_stack, 1, Len(transaction_stack) - 1)

\* the stack __exit__ leaves: the pop is the last step before return
StackAfterExit(frame, r) ==
  IF r.ok /\ ExitPostcondition(frame, r)
  THEN SubSeq(transaction_stack, 1, Len(transaction_stack) - 1)
  ELSE transaction_stack

\* a failed exit reports the failure as handled
ExitReturn_Swallow(outcome, frame) ==
  IF outcome = "failed" THEN "True" ELSE "False"

\* the value __exit__ returns on every path that returns
ExitReturn(outcome, frame) == "False"

\* the engine's flag is not asserted
ExitPrecondition_NoEngineCheck == Len(transaction_stack) > 0

\* assert self.in_transaction; assert len(self.__transaction_stack) > 0
ExitPrecondition == in_transaction /\ Len(transaction_stack) > 0

Exit(outcome) ==
  /\ Len(hist) < MaxCalls
  /\ \E fault \in FaultChoices :
       IF ~ExitPrecondition
       THEN \* AssertionError
            /\ UNCHANGED <<transaction_stack, in_transaction, savepoints,
                           committed, working>>
            /\ Record(Call("exit", outcome, <<>>, "InvariantViolation", "", FALSE))
       ELSE LET frame == transaction_stack[Len(transaction_stack)]
                stmt == ExitStatement(outcome, frame)
                r == execute(stmt, fault)
                done == r.ok /\ ExitPostcondition(frame, r)
            IN /\ SetEngine(r)
               /\ transaction_stack' = StackAfterExit(frame, r)
               /\ Record(Call("exit", outcome, <<stmt>>,
                              IF ~r.ok THEN "EngineError"
                              ELSE IF ~done THEN "InvariantViolation"
                              ELSE "none",
                              IF done THEN ExitReturn(outcome, frame) ELSE "",
                              fault))

\* what the caller of the `with` statement sees after __exit__: an exception
\* __exit__ raised itself, else the body failure unless __exit__ returned true
Propagated(call) ==
  IF call.raised # "none" THEN call.raised
  ELSE IF call.arg = "failed" /\ call.returned # "True" THEN "BodyFailure"
  ELSE "none"

\* ------------------------------------------------------- the scope bodies
\* a body statement that writes a row; with isolation_level None it is
\* committed at once unless a transaction is open
Write(row) ==
  /\ Len(hist) < MaxCalls
  /\ IF in_transaction
     THEN /\ working' = working \cup {row}
          /\ UNCHANGED committed
     ELSE /\ committed' = committed \cup {row}
          /\ working' = committed \cup {row}
  /\ UNCHANGED <<transaction_stack, in_transaction, savepoints>>
  /\ Record(Call("write", row, <<>>, "none", "", FALSE))

\* transaction control the caller issues directly through the inherited
\* execute(), behind the manager's back
RawStatements == {BeginStmt, CommitStmt, RollbackStmt}

RawExecute(stmt) ==
  /\ Len(hist) < MaxRawCalls
  /\ UNCHANGED transaction_stack
  /\ LET r == execute(stmt, FALSE)
     IN /\ SetEngine(r)
        /\ Record(Call("execute", "", <<stmt>>,
                       IF r.ok THEN "none" ELSE "EngineError", "", FALSE))

\* --------------------------------------------------------- specifications
Next ==
  \/ Enter
  \/ \E outcome \in Outcomes : Exit(outcome)
  \/ \E row \in Rows : Write(row)

Spec == Init /\ [][Next]_vars

NextRaw ==
  \/ Len(hist) < MaxRawCalls /\ Next
  \/ \E stmt \in RawStatements : RawExecute(stmt)

SpecRaw == Init /\ [][NextRaw]_vars

TypeOK ==
  /\ in_transaction \in BOOLEAN
  /\ committed \subseteq Rows
  /\ working \subseteq Rows
  /\ Len(hist) <= MaxCalls
  /\ faults \in 0..MaxFaults

\* ------------------------------------------------------------ properties
Last(h) == h[Len(h)]

\* a call has just been made: the step appended it to the history
Called(op) == hist' # hist /\ Last(hist').op = op

\* number of calls in h that issued a statement satisfying Is
RECURSIVE Issued(_, _)
Issued(h, stmtSet) ==
  IF h = <<>> THEN 0
  ELSE Issued(SubSeq(h, 1, Len(h) - 1), stmtSet)
       + Cardinality({j \in 1..Len(Last(h).stmts) : Last(h).stmts[j] \in stmtSet})

NoFault(h) == \A i \in 1..Len(h) : ~h[i].fault

NestedNormal(d) ==
  /\ Len(hist) = 2 * d
  /\ NoFault(hist)
  /\ \A i \in 1..d : hist[i].op = "enter"
  /\ \A i \in (d + 1)..(2 * d) : hist[i].op = "exit" /\ hist[i].arg = "normal"

ReleaseStmts == {ReleaseStmt(SavepointName(d)) : d \in 1..MaxCalls}

\* C2: entering d scopes and then exiting d scopes normally issues exactly
\* one commit and exactly d-1 release-savepoint statements, and the engine
\* reports no active transaction afterward (d >= 1; for d = 0 nothing is
\* called and nothing is issued).
C2_NestedNormalCounts ==
  \A d \in 1..MaxCalls :
    NestedNormal(d) =>
      /\ Issued(hist, {CommitStmt}) = 1
      /\ Issued(hist, ReleaseStmts) = d - 1
      /\ ~in_transaction

\* the statement the table of exit-scope gives for an outcome and a top frame
C3_Table(outcome, frame) ==
  CASE outcome = "normal" /\ frame = None -> <<"COMMIT", "TRANSACTION">>
    [] outcome = "normal" /\ frame # None -> <<"RELEASE", "SAVEPOINT">> \o frame
    [] outcome = "failed" /\ frame = None -> <<"ROLLBACK", "TRANSACTION">>
    [] outcome = "failed" /\ frame # None ->
         <<"ROLLBACK", "TRANSACTION", "TO", "SAVEPOINT">> \o frame

\* C3: an exit-scope whose precondition holds issues exactly one statement,
\* the one its outcome and the kind of the top frame select: commit, release
\* savepoint n, rollback, or rollback to savepoint n, n being the name in the
\* top frame.
C3_ExitStatementByTable ==
  [][(Called("exit") /\ in_transaction /\ Len(transaction_stack) > 0) =>
       Last(hist').stmts =
         <<C3_Table(Last(hist').arg, Last(transaction_stack))>>]_vars

\* a failed exit of the root frame has issued rollback transaction
C3_Witness ==
  /\ hist # <<>>
  /\ Last(hist).op = "exit"
  /\ Last(hist).arg = "failed"
  /\ Last(hist).stmts = <<RollbackStmt>>
  /\ Last(hist).raised = "none"

\* C4: an enter-scope that returns without error has deepened the stack by
\* exactly 1 and leaves the engine in a transaction; on an empty stack it
\* issued begin transaction and pushed a Root frame, otherwise it issued
\* create savepoint with the depth-derived name and pushed that name.
C4_EnterPushesOne ==
  [][(Called("enter") /\ Last(hist').raised = "none") =>
       /\ Len(transaction_stack') = Len(transaction_stack) + 1
       /\ SubSeq(transaction_stack', 1, Len(transaction_stack)) = transaction_stack
       /\ in_transaction'
       /\ IF Len(transaction_stack) = 0
          THEN /\ Last(hist').stmts = <<BeginStmt>>
               /\ Last(transaction_stack') = None
          ELSE /\ Last(hist').stmts =
                    <<(<<"SAVEPOINT">> \o SavepointName(Len(transaction_stack)))>>
               /\ Last(transaction_stack') = SavepointName(Len(transaction_stack))]_vars

\* an enter-scope on an empty stack has just returned
C4_Witness ==
  /\ hist # <<>>
  /\ Last(hist).op = "enter"
  /\ Last(hist).raised = "none"
  /\ transaction_stack = <<None>>
  /\ in_transaction

\* C5: a failed exit never reports the failure as handled, and one that has
\* performed its rollback re-propagates the body failure to the caller.
C5_FailureNotSwallowed ==
  \A i \in 1..Len(hist) :
    (hist[i].op = "exit" /\ hist[i].arg = "failed") =>
      /\ hist[i].returned # "True"
      /\ hist[i].raised = "none" =>
           /\ Len(hist[i].stmts) = 1
           /\ Propagated(hist[i]) = "BodyFailure"

\* a failed exit has performed its rollback and returned
C5_Witness ==
  /\ hist # <<>>
  /\ Last(hist).op = "exit"
  /\ Last(hist).arg = "failed"
  /\ Last(hist).raised = "none"
  /\ Last(hist).stmts = <<RollbackStmt>>
  /\ Propagated(Last(hist)) = "BodyFailure"
  /\ ~in_transaction

\* the rows written by the calls i..j of h
Written(h, i, j) == {h[k].arg : k \in {n \in i..j : h[n].op = "write"}}

\* the calls 1..k-1 of h only enter scopes and write, the last enter being
\* call e and at least one enter preceding it, and call k is a failed exit:
\* the scope entered by call e, at depth 2 or deeper, has failed
NestedFailed(h, e, k) ==
  /\ 1 < e /\ e < k /\ k <= Len(h)
  /\ h[1].op = "enter"
  /\ h[e].op = "enter"
  /\ \A i \in 1..(k - 1) : h[i].op \in {"enter", "write"}
  /\ \A i \in (e + 1)..(k - 1) : h[i].op = "write"
  /\ h[k].op = "exit" /\ h[k].arg = "failed"
  /\ NoFault(h)

\* C6: when a scope at depth 2 or deeper exits with a failed outcome, the
\* writes made since it was entered are undone and no others: the writes its
\* ancestors made before entering it are retained, the ancestors stay open,
\* and the retained writes are committed if the ancestor then exits normally.
C6_FailedNestedUndoesOwnLevel ==
  \A e \in 1..Len(hist), k \in 1..Len(hist) :
    NestedFailed(hist, e, k) =>
      /\ Len(hist) = k =>
           /\ working = Written(hist, 1, e - 1)
           /\ in_transaction
           /\ Len(transaction_stack) > 0
      /\ (/\ Len(hist) = k + 1
          /\ hist[k + 1].op = "exit" /\ hist[k + 1].arg = "normal"
          /\ \A i \in 2..(e - 1) : hist[i].op = "write") =>
           committed = Written(hist, 1, e - 1)

\* the calls of the scenario, in order
C7_Scenario ==
  /\ Len(hist) = 6
  /\ NoFault(hist)
  /\ hist[1].op = "enter"
  /\ hist[2].op = "write" /\ hist[2].arg = "A"
  /\ hist[3].op = "enter"
  /\ hist[4].op = "write" /\ hist[4].arg = "B"
  /\ hist[5].op = "exit" /\ hist[5].arg = "failed"
  /\ hist[6].op = "exit" /\ hist[6].arg = "normal"

\* C7: after enter, write row A, enter, write row B, failure, exit(failed),
\* exit(normal) from an empty stack, row A is persisted, row B is absent, the
\* engine is not in a transaction and the failure was re-raised to the caller.
C7_ScenarioResult ==
  C7_Scenario =>
    /\ "A" \in committed
    /\ "B" \notin committed
    /\ ~in_transaction
    /\ Propagated(hist[5]) = "BodyFailure"

\* C8: an exit-scope called while the engine reports no active transaction,
\* or while the stack is empty, raises InvariantViolation: it issues no
\* statement, returns nothing and leaves the stack and the engine as they were.
C8_ExitOutsideTransactionRaises ==
  [][(Called("exit") /\ (~in_transaction \/ Len(transaction_stack) = 0)) =>
       /\ Last(hist').raised = "InvariantViolation"
       /\ Last(hist').stmts = <<>>
       /\ Last(hist').returned = ""
       /\ UNCHANGED <<transaction_stack, in_transaction, savepoints,
                      committed, working>>]_vars

\* an exit-scope has raised InvariantViolation with a frame on the stack and
\* the engine outside a transaction
C8_Witness ==
  /\ hist # <<>>
  /\ Last(hist).op = "exit"
  /\ Last(hist).raised = "InvariantViolation"
  /\ Len(transaction_stack) > 0
  /\ ~in_transaction

\* C9: an enter-scope called with an empty stack while the engine already
\* reports an active transaction raises InvariantViolation, issues no begin
\* statement and pushes no frame.
C9_EnterInsideForeignTransactionRaises ==
  [][(Called("enter") /\ Len(transaction_stack) = 0 /\ in_transaction) =>
       /\ Last(hist').raised = "InvariantViolation"
       /\ Last(hist').stmts = <<>>
       /\ transaction_stack' = <<>>]_vars

\* an enter-scope has raised InvariantViolation on an empty stack
C9_Witness ==
  /\ hist # <<>>
  /\ Last(hist).op = "enter"
  /\ Last(hist).raised = "InvariantViolation"
  /\ transaction_stack = <<>>
  /\ in_transaction

RECURSIVE SavepointFrames(_)
SavepointFrames(stack) ==
  IF stack = <<>> THEN <<>>
  ELSE SavepointFrames(SubSeq(stack, 1, Len(stack) - 1))
       \o (IF Last(stack) = None THEN <<>> ELSE <<Last(stack)>>)

\* the name in the create-savepoint statement a call issued
IssuedName(call) == SubSeq(call.stmts[1], 2, Len(call.stmts[1]))

RECURSIVE OpenScopes(_)
OpenScopes(h) ==
  IF h = <<>> THEN 0
  ELSE LET n == OpenScopes(SubSeq(h, 1, Len(h) - 1))
       IN IF Last(h).op = "enter" /\ Last(h).raised = "none" THEN n + 1
          ELSE IF Last(h).op = "exit" /\ n > 0 THEN n - 1
          ELSE n

\* C12: the stack depth equals the number of currently open scopes: a frame
\* is created when its scope is entered and destroyed when the matching
\* scope exits, whether that exit returns or ends in an InvariantViolation
\* or an EngineError.
C12_DepthEqualsOpenScopes == Len(transaction_stack) = OpenScopes(hist)

\* enter calls minus exit calls among the calls i..k of h
Balance(h, i, k) ==
  Cardinality({n \in i..k : h[n].op = "enter"})
  - Cardinality({n \in i..k : h[n].op = "exit"})

\* the calls i..j of h open a scope with call i and close it with call j,
\* every enter in between being matched by an exit in LIFO order
Balanced(h, i, j) ==
  /\ 1 <= i /\ i < j /\ j <= Len(h)
  /\ h[i].op = "enter"
  /\ h[j].op = "exit"
  /\ Balance(h, i, j) = 0
  /\ \A k \in i..(j - 1) : Balance(h, i, k) > 0

\* the stack depth before call i of h
DepthBefore(h, i) == IF i = 1 THEN 0 ELSE h[i - 1].depth

\* the engine's flag before call i of h
ActiveBefore(h, i) == IF i = 1 THEN FALSE ELSE h[i - 1].active

\* C13: after a fully balanced enter/exit sequence, at any nesting depth and
\* with any mix of outcomes, the engine's active-transaction flag and the
\* stack depth are what they were before the first enter.
C13_BalancedRoundTrip ==
  \A i \in 1..Len(hist), j \in 1..Len(hist) :
    Balanced(hist, i, j) =>
      /\ hist[j].active = ActiveBefore(hist, i)
      /\ hist[j].depth = DepthBefore(hist, i)

\* C14: after the statement of an exit-scope has been executed, the engine
\* must report no active transaction if the frame was the Root frame and an
\* active one if it was a Savepoint frame; the exit-scope ends in
\* InvariantViolation exactly when the engine reports otherwise, and returns
\* normally when it reports as expected.
C14_ExitChecksEngineAfterStatement ==
  [][(/\ Called("exit")
      /\ Len(Last(hist').stmts) = 1
      /\ Last(hist').raised # "EngineError") =>
       LET asExpected == IF Last(transaction_stack) = None
                         THEN ~in_transaction' ELSE in_transaction'
       IN /\ Last(hist').raised = "InvariantViolation" <=> ~asExpected
          /\ Last(hist').raised = "none" <=> asExpected]_vars

\* the commit of a Root frame has left the engine outside a transaction and
\* the exit-scope has returned
C14_Witness ==
  /\ hist # <<>>
  /\ Last(hist).op = "exit"
  /\ Last(hist).stmts = <<CommitStmt>>
  /\ Last(hist).raised = "none"
  /\ Last(hist).returned = "False"
  /\ ~in_transaction
  /\ transaction_stack = <<>>

\* Idle: empty stack, no active transaction
Idle == transaction_stack = <<>> /\ ~in_transaction

\* C15: the manager has no terminal state: in every reachable state, also
\* after calls that ended in InvariantViolation or EngineError, once the
\* scopes that were open have been exited the manager is back in Idle.
C15_NoOpenScopeMeansIdle == OpenScopes(hist) = 0 => Idle

\* the statements a step issued to the engine
IssuedNow == IF hist' # hist THEN Last(hist').stmts ELSE <<>>

IssuesNow(stmt) == \E i \in 1..Len(IssuedNow) : IssuedNow[i] = stmt

C17_FailedEnterPushesNothing ==
  [][(Called("enter") /\ Last(hist').raised = "EngineError") =>
       /\ Last(hist').stmts =
            <<(IF Len(transaction_stack) = 0 THEN BeginStmt
               ELSE <<"SAVEPOINT">> \o SavepointName(Len(transaction_stack)))>>
       /\ Last(hist').returned = ""
       /\ transaction_stack' = transaction_stack]_vars

\* the engine has just failed the begin of an enter-scope on an empty stack
C17_Witness ==
  /\ hist # <<>>
  /\ Last(hist).op = "enter"
  /\ Last(hist).stmts = <<BeginStmt>>
  /\ Last(hist).raised = "EngineError"
  /\ Last(hist).fault
  /\ Idle

C19_NestedEnterSucceeds ==
  [][(/\ Called("enter")
      /\ Len(transaction_stack) >= 1
      /\ in_transaction
      /\ ~Last(hist').fault) =>
       /\ Parse(Last(hist').stmts[1]).kind = "savepoint"
       /\ Last(hist').raised = "none"
       /\ Len(transaction_stack') = Len(transaction_stack) + 1]_vars

====
